---- MODULE Spec2Model ----
(***************************************************************************)
(* A model of the CUDA-to-HIP source translator (hipamd/src/Cuda2Hip.cpp): *)
(* the rename table, the AST-match callback Cuda2HipCallback::run, the     *)
(* preprocessor callbacks HipifyPPCallbacks, the set of Replacements both  *)
(* feed, and main(), which runs the host-only and the device-only pass and *)
(* then applies the replacements.                                          *)
(*                                                                         *)
(* Text is modelled by TLA+ strings; positions in a string are 0-based as  *)
(* in std::string, and npos is -1.                                         *)
(***************************************************************************)
EXTENDS Integers, Sequences, FiniteSets, TLC

(***************************************************************************)
(* hipName::hipName(): the assignments cuda2hipRename[k] = v in program    *)
(* order.  A key assigned twice keeps the value of the later assignment.   *)
(***************************************************************************)
RenameEntries ==
  <<
     <<"__CUDACC__", "__HIPCC__">>,
     <<"cuda_runtime.h", "hip_runtime.h">>,
     <<"cuda_runtime_api.h", "hip_runtime_api.h">>,
     <<"cudaError_t", "hipError_t">>,
     <<"cudaError", "hipError">>,
     <<"cudaSuccess", "hipSuccess">>,
     <<"cudaErrorUnknown", "hipErrorUnknown">>,
     <<"cudaErrorMemoryAllocation", "hipErrorMemoryAllocation">>,
     <<"cudaErrorMemoryFree", "hipErrorMemoryFree">>,
     <<"cudaErrorUnknownSymbol", "hipErrorUnknownSymbol">>,
     <<"cudaErrorOutOfResources", "hipErrorOutOfResources">>,
     <<"cudaErrorInvalidValue", "hipErrorInvalidValue">>,
     <<"cudaErrorInvalidResourceHandle", "hipErrorInvalidResourceHandle">>,
     <<"cudaErrorInvalidDevice", "hipErrorInvalidDevice">>,
     <<"cudaErrorNoDevice", "hipErrorNoDevice">>,
     <<"cudaErrorNotReady", "hipErrorNotReady">>,
     <<"cudaErrorUnknown", "hipErrorUnknown">>,
     <<"cudaGetLastError", "hipGetLastError">>,
     <<"cudaPeekAtLastError", "hipPeekAtLastError">>,
     <<"cudaGetErrorName", "hipGetErrorName">>,
     <<"cudaGetErrorString", "hipGetErrorString">>,
     <<"cudaMemcpy", "hipMemcpy">>,
     <<"cudaMemcpyHostToHost", "hipMemcpyHostToHost">>,
     <<"cudaMemcpyHostToDevice", "hipMemcpyHostToDevice">>,
     <<"cudaMemcpyDeviceToHost", "hipMemcpyDeviceToHost">>,
     <<"cudaMemcpyDeviceToDevice", "hipMemcpyDeviceToDevice">>,
     <<"cudaMemcpyDefault", "hipMemcpyDefault">>,
     <<"cudaMemcpyToSymbol", "hipMemcpyToSymbol">>,
     <<"cudaMemset", "hipMemset">>,
     <<"cudaMemsetAsync", "hipMemsetAsync">>,
     <<"cudaMemcpyAsync", "hipMemcpyAsync">>,
     <<"cudaMemGetInfo", "hipMemGetInfo">>,
     <<"cudaMemcpyKind", "hipMemcpyKind">>,
     <<"cudaMalloc", "hipMalloc">>,
     <<"cudaMallocHost", "hipMallocHost">>,
     <<"cudaFree", "hipFree">>,
     <<"cudaFreeHost", "hipFreeHost">>,
     <<"threadIdx.x", "hipThreadIdx_x">>,
     <<"threadIdx.y", "hipThreadIdx_y">>,
     <<"threadIdx.z", "hipThreadIdx_z">>,
     <<"blockIdx.x", "hipBlockIdx_x">>,
     <<"blockIdx.y", "hipBlockIdx_y">>,
     <<"blockIdx.z", "hipBlockIdx_z">>,
     <<"blockDim.x", "hipBlockDim_x">>,
     <<"blockDim.y", "hipBlockDim_y">>,
     <<"blockDim.z", "hipBlockDim_z">>,
     <<"gridDim.x", "hipGridDim_x">>,
     <<"gridDim.y", "hipGridDim_y">>,
     <<"gridDim.z", "hipGridDim_z">>,
     <<"blockIdx.x", "hipBlockIdx_x">>,
     <<"blockIdx.y", "hipBlockIdx_y">>,
     <<"blockIdx.z", "hipBlockIdx_z">>,
     <<"blockDim.x", "hipBlockDim_x">>,
     <<"blockDim.y", "hipBlockDim_y">>,
     <<"blockDim.z", "hipBlockDim_z">>,
     <<"gridDim.x", "hipGridDim_x">>,
     <<"gridDim.y", "hipGridDim_y">>,
     <<"gridDim.z", "hipGridDim_z">>,
     <<"warpSize", "hipWarpSize">>,
     <<"cudaEvent_t", "hipEvent_t">>,
     <<"cudaEventCreate", "hipEventCreate">>,
     <<"cudaEventCreateWithFlags", "hipEventCreateWithFlags">>,
     <<"cudaEventDestroy", "hipEventDestroy">>,
     <<"cudaEventRecord", "hipEventRecord">>,
     <<"cudaEventElapsedTime", "hipEventElapsedTime">>,
     <<"cudaEventSynchronize", "hipEventSynchronize">>,
     <<"cudaStream_t", "hipStream_t">>,
     <<"cudaStreamCreate", "hipStreamCreate">>,
     <<"cudaStreamCreateWithFlags", "hipStreamCreateWithFlags">>,
     <<"cudaStreamDestroy", "hipStreamDestroy">>,
     <<"cudaStreamWaitEvent", "hipStreamWaitEven">>,
     <<"cudaStreamSynchronize", "hipStreamSynchronize">>,
     <<"cudaStreamDefault", "hipStreamDefault">>,
     <<"cudaStreamNonBlocking", "hipStreamNonBlocking">>,
     <<"cudaDeviceSynchronize", "hipDeviceSynchronize">>,
     <<"cudaThreadSynchronize", "hipDeviceSynchronize">>,
     <<"cudaDeviceReset", "hipDeviceReset">>,
     <<"cudaThreadExit", "hipDeviceReset">>,
     <<"cudaSetDevice", "hipSetDevice">>,
     <<"cudaGetDevice", "hipGetDevice">>,
     <<"cudaDeviceProp", "hipDeviceProp_t">>,
     <<"cudaGetDeviceProperties", "hipDeviceGetProperties">>,
     <<"cudaDeviceSetCacheConfig", "hipDeviceSetCacheConfig">>,
     <<"cudaThreadSetCacheConfig", "hipDeviceSetCacheConfig">>,
     <<"cudaDeviceGetCacheConfig", "hipDeviceGetCacheConfig">>,
     <<"cudaThreadGetCacheConfig", "hipDeviceGetCacheConfig">>,
     <<"cudaFuncCache", "hipFuncCache">>,
     <<"cudaFuncCachePreferNone", "hipFuncCachePreferNone">>,
     <<"cudaFuncCachePreferShared", "hipFuncCachePreferShared">>,
     <<"cudaFuncCachePreferL1", "hipFuncCachePreferL1">>,
     <<"cudaFuncCachePreferEqual", "hipFuncCachePreferEqual">>,
     <<"cudaFuncSetCacheConfig", "hipFuncSetCacheConfig">>,
     <<"cudaDriverGetVersion", "hipDriverGetVersion">>,
     <<"cudaDeviceCanAccessPeer", "hipDeviceCanAccessPeer">>,
     <<"cudaDeviceDisablePeerAccess", "hipDeviceDisablePeerAccess">>,
     <<"cudaDeviceEnablePeerAccess", "hipDeviceEnablePeerAccess">>,
     <<"cudaMemcpyPeerAsync", "hipMemcpyPeerAsync">>,
     <<"cudaMemcpyPeer", "hipMemcpyPeer">>,
     <<"cudaDeviceSetSharedMemConfig", "hipDeviceSetSharedMemConfig">>,
     <<"cudaThreadSetSharedMemConfig", "hipDeviceSetSharedMemConfig">>,
     <<"cudaDeviceGetSharedMemConfig", "hipDeviceGetSharedMemConfig">>,
     <<"cudaThreadGetSharedMemConfig", "hipDeviceGetSharedMemConfig">>,
     <<"cudaSharedMemConfig", "hipSharedMemConfig">>,
     <<"cudaSharedMemBankSizeDefault", "hipSharedMemBankSizeDefault">>,
     <<"cudaSharedMemBankSizeFourByte", "hipSharedMemBankSizeFourByte">>,
     <<"cudaSharedMemBankSizeEightByte", "hipSharedMemBankSizeEightByte">>,
     <<"cudaGetDeviceCount", "hipGetDeviceCount">>,
     <<"cudaProfilerStart", "hipProfilerStart">>,
     <<"cudaProfilerStop", "hipProfilerStop">>,
     <<"cudaChannelFormatDesc", "hipChannelFormatDesc">>,
     <<"cudaFilterModePoint", "hipFilterModePoint">>,
     <<"cudaReadModeElementType", "hipReadModeElementType">>,
     <<"cudaCreateChannelDesc", "hipCreateChannelDesc">>,
     <<"cudaBindTexture", "hipBindTexture">>,
     <<"cudaUnbindTexture", "hipUnbindTexture">>
  >>

\* The table as the constructor leaves it.
hipName ==
  LET Keys == {RenameEntries[i][1] : i \in DOMAIN RenameEntries}
      Last(k) == LET at == {i \in DOMAIN RenameEntries : RenameEntries[i][1] = k}
                 IN  CHOOSE i \in at : \A j \in at : j <= i
  IN  [k \in Keys |-> RenameEntries[Last(k)][2]]

(***************************************************************************)
(* std::string operations used by the callbacks.                           *)
(***************************************************************************)
npos == -1

Min(S) == CHOOSE x \in S : \A y \in S : x <= y

\* s.substr(pos, n)
Substr(s, pos, n) == SubSeq(s, pos + 1, pos + n)

\* s.find(pat, pos): the first position >= pos where pat occurs, or npos.
Find(s, pat, pos) ==
  LET hits == {i \in pos .. (Len(s) - Len(pat)) : Substr(s, i, Len(pat)) = pat}
  IN  IF hits = {} THEN npos ELSE Min(hits)

\* s.replace(pos, n, r)
StrReplace(s, pos, n, r) ==
  Substr(s, 0, pos) \o r \o Substr(s, pos + n, Len(s) - (pos + n))

\* s.find_first_not_of(chars): the first position whose character is not one
\* of the characters of chars, or npos.
FindFirstNotOf(s, chars) ==
  LET hits == {i \in 0 .. (Len(s) - 1) : Find(chars, Substr(s, i, 1), 0) = npos}
  IN  IF hits = {} THEN npos ELSE Min(hits)

\* s.pop_back()
PopBack(s) == Substr(s, 0, Len(s) - 1)

\* The matcher matchesName(re) with re = "<pat>.*": the pattern occurs somewhere in the
\* name.
MatchesName(name, pat) == Find(name, pat, 0) # npos


(***************************************************************************)
(* The input.  The parser is outside the translator: what it reports is    *)
(* modelled by a universe of constructs, each at its own place of the main *)
(* file (Stride characters apart), and a translated file is a small set of *)
(* them.  Every record carries what the matchers (main(), Finder.addMatcher)*)
(* and the callbacks read from the node.                                   *)
(*   inMain   isExpansionInMainFile / isWrittenInMainFile                  *)
(*   view     the compilation stages in which the construct is seen        *)
(*   macroArg SM->isMacroArgExpansion(getLocStart()); argAt is then where  *)
(*            the token is spelled, relative to the macro invocation       *)
(*   within   the place of the construct whose text this one is part of (0:*)
(*            none), at is then where it starts in that text               *)
(***************************************************************************)
Stride == 100
MaxConstructs == 2
MaxSkipped == 1

Node(kind) == [kind |-> kind, inMain |-> TRUE, view |-> "both",
               macroArg |-> FALSE, argAt |-> 0, within |-> 0, at |-> 0]

Call(callee) == Node("cudaCall") @@ [callee |-> callee]

\* One argument of the execution configuration or of the launch: its source
\* text, the declared type of the parameter it binds to, and whether it is a
\* CXXDefaultArgExpr.
Arg(text, type) == [text |-> text, type |-> type, isDefault |-> FALSE]
DefaultArg(type) == [text |-> "", type |-> type, isDefault |-> TRUE]

\* A kernel launch: the kernel's declaration (where its parameter list is
\* and how it reads) and the launch expression.
Launch(kernel, numParams, paramListAt, paramList, config, args, length) ==
  Node("cudaLaunchKernel") @@
  [kernel |-> kernel, numParams |-> numParams, paramListAt |-> paramListAt,
   paramList |-> paramList, config |-> config, args |-> args,
   length |-> length]

Builtin(baseType, opaque, base, member) ==
  Node("cudaBuiltin") @@
  [baseType |-> baseType, opaque |-> opaque, base |-> base, member |-> member]

Named(kind, name) == Node(kind) @@ [name |-> name]

\* A narrow string literal without escapes: str is what getString() gives,
\* the token is str between two quotes.
Literal(str) ==
  Node("stringLiteral") @@ [str |-> str, tokenLen |-> Len(str) + 2]

\* #include <file_name> or #include "file_name": the name with its brackets
\* or quotes starts nameAt characters after the hash.
Include(file_name, is_angled, inMain) ==
  [Node("include") EXCEPT !.inMain = inMain] @@
  [file_name |-> file_name, is_angled |-> is_angled,
   nameAt |-> Len("#include "), rangeLen |-> Len(file_name) + 2]

Tok(name, ident, at) == [name |-> name, ident |-> ident, at |-> at]

Macro(mdKind, inMain, tokens) ==
  [Node("macro") EXCEPT !.inMain = inMain] @@
  [mdKind |-> mdKind, tokens |-> tokens]

InMacroArg(c, at) == [c EXCEPT !.macroArg = TRUE, !.argAt = at]
OnlyIn(c, view) == [c EXCEPT !.view = view]
InHeader(c) == [c EXCEPT !.inMain = FALSE]
Within(c, place, at) == [c EXCEPT !.within = place, !.at = at]

Constructs ==
  << Include("cuda_runtime.h", TRUE, TRUE),
     Include("cuda_runtime.h", TRUE, FALSE),
     Include("cuda_runtime.h", FALSE, TRUE),
     Include("stdio.h", TRUE, TRUE),
     Include("hip_runtime.h", TRUE, TRUE),
     Macro("MD_Define", TRUE,
           << Tok("cudaMalloc", TRUE, 17), Tok("(", FALSE, 27),
              Tok("p", TRUE, 28), Tok(")", FALSE, 29), Tok("==", FALSE, 31),
              Tok("cudaSuccess", TRUE, 34) >>),
     Macro("MD_Define", FALSE, << Tok("cudaFree", TRUE, 16) >>),
     Call("cudaMalloc"),
     InMacroArg(Call("cudaMalloc"), 6),
     Call("cudaMallocPitch"),
     Call("warpSize"),
     Call("hipMalloc"),
     OnlyIn(Call("cudaThreadSynchronize"), "host"),
     InHeader(Call("cudaFree")),
     Launch("foo", 2, 5012, "int *a, int n",
            << Arg("grid", "dim3"), Arg("block", "dim3"),
               DefaultArg("size_t"), DefaultArg("cudaStream_t") >>,
            << Arg("a", "int *"), Arg("b", "int") >>, 26),
     Launch("foo", 2, 5012, "int *a, int n",
            << Arg("1", "dim3"), Arg("n / 2", "dim3"),
               Arg("shmem", "size_t"), Arg("s", "cudaStream_t") >>,
            << Arg("p + 1", "int *"), Arg("cudaGetDevice(&d)", "int") >>, 53),
     Within(Call("cudaGetDevice"), 16, 35),
     Launch("hello", 0, 5112, "",
            << Arg("1", "dim3"), Arg("1", "dim3"),
               DefaultArg("size_t"), DefaultArg("cudaStream_t") >>,
            << >>, 17),
     OnlyIn(Builtin("__cuda_builtin_threadIdx_t", TRUE, "threadIdx",
                    "__fetch_builtin_x"), "device"),
     Builtin("__cuda_builtin_blockDim_t", FALSE, "blockDim",
             "__fetch_builtin_y"),
     Named("cudaEnumConstantRef", "cudaSuccess"),
     Named("cudaEnumConstantRef", "cudaErrorAssert"),
     Named("cudaEnumConstantDecl", "cudaError"),
     Named("cudaStructVar", "cudaDeviceProp"),
     Named("cudaStructVar", "cudaExtent"),
     Named("cudaParamDecl", "cudaStream_t"),
     Named("cudaParamDecl", "cudaDeviceProp *"),
     Literal("cuda error in cudaMalloc"),
     Literal("no device"),
     Literal("hip error in hipMalloc"),
     Literal("cudaMalloc failed"),
     Call("hipLaunchKernel"),
     Macro("MD_Define", TRUE,
           << Tok("hipGetLastError", TRUE, 14), Tok("(", FALSE, 29),
              Tok(")", FALSE, 30), Tok("==", FALSE, 32),
              Tok("hipSuccess", TRUE, 35) >>),
     Named("cudaEnumConstantRef", "hipSuccess"),
     Named("cudaEnumConstantDecl", "hipError"),
     Named("cudaStructVar", "hipDeviceProp_t"),
     Named("cudaParamDecl", "hipStream_t") >>

Places == DOMAIN Constructs

\* Where construct i starts in the main file.
OffsetOf(i) ==
  IF Constructs[i].within = 0 THEN i * Stride
  ELSE Constructs[i].within * Stride + Constructs[i].at

\* The files: every set of at most n constructs.
RECURSIVE FilesUpTo(_)
FilesUpTo(n) ==
  IF n = 0 THEN {{}}
  ELSE LET smaller == FilesUpTo(n - 1)
       IN  smaller \cup {f \cup {i} : f \in smaller, i \in Places}

(***************************************************************************)
(* The state.                                                              *)
(*   file      the constructs of the file under translation                *)
(*   pc        where main() is: "host", "device" (Tool.run of that stage), *)
(*             "apply", "overwrite", "done"; "crashed" after a fault       *)
(*   idx       the place of the last construct reported in this pass       *)
(*   Replace   Tool.getReplacements(), a std::set<Replacement>             *)
(*   dangling  the keys operator[] has added to the callback's table       *)
(*             (Cuda2HipCallback::N.cuda2hipRename) since its construction:*)
(*             each is a StringRef into a std::string that is destroyed    *)
(*             when the callback returns                                   *)
(*   Result    main's Result                                               *)
(*   match     the place of the construct last handed to a callback (0:    *)
(*             none), proposed the Replacements that callback inserted, in *)
(*             order                                                       *)
(*   trace     what main() has done so far: the passes that returned and   *)
(*             the apply step, each with whether it succeeded              *)
(*   applied, skipped  what applyAllReplacements did with each Replacement *)
(***************************************************************************)
VARIABLES file, pc, idx, Replace, dangling, Result, match, proposed, trace,
          applied, skipped, sources, savedSources, disk

vars == <<file, pc, idx, Replace, dangling, Result, match, proposed, trace,
          applied, skipped, sources, savedSources, disk>>

\* Cuda2HipCallback::N.cuda2hipRename: what the constructor put there, and the
\* keys added since, each with an empty value.
N == [k \in DOMAIN hipName \cup dangling |->
        IF k \in DOMAIN hipName THEN hipName[k] ELSE ""]

\* HipifyPPCallbacks::N.cuda2hipRename: its lookups are all behind count(), so
\* it stays as constructed.
NPP == hipName

\* The path of the file the Replacements are for: the copy the tool runs on.
FilePath == savedSources[1]

\* Replacement altered: the Replacement tells which pass made it.
ReplacementOfPass(offset, length, text) ==
  [FilePath |-> FilePath \o " " \o pc, Offset |-> offset, Length |-> length,
   ReplacementText |-> text]

\* Replacement(SM, loc, length, text)
Replacement(offset, length, text) ==
  [FilePath |-> FilePath, Offset |-> offset, Length |-> length,
   ReplacementText |-> text]

\* Replace->insert(Rep) on a std::set<Replacement>: an element equal in path,
\* offset, length and text is already there, or the new one is added.
Insert(R, rep) == R \cup {rep}

RECURSIVE InsertAll(_, _)
InsertAll(R, reps) ==
  IF reps = << >> THEN R ELSE InsertAll(Insert(R, Head(reps)), Tail(reps))

\* OptionsParser.getSourcePathList(): the paths given on the command line.
Paths == {"a.cu", "k.cuh", "x.cuda/k.cu"}

\* The name of the copy of source path I, if one is made.
CopyName(I) ==
  LET pos == Find(I, ".cu", 0)
  IN  IF pos # npos THEN << Substr(I, 0, pos) \o ".hip.cu" >> ELSE << >>

\* savedSources after the loop over the source paths.
RECURSIVE SavedSources(_)
SavedSources(list) ==
  IF list = << >> THEN << >>
  ELSE CopyName(Head(list)) \o SavedSources(Tail(list))

\* The files after the copies were written.  A file is known by the
\* Replacements that were applied to the text of the source: none for the
\* source and for a copy of it.
RECURSIVE CopySources(_, _)
CopySources(d, list) ==
  IF list = << >> THEN d
  ELSE LET dst == CopyName(Head(list))
           names == DOMAIN d \cup {dst[n] : n \in 1..Len(dst)}
       IN  CopySources([f \in names |-> IF f \in DOMAIN d THEN d[f] ELSE {}],
                       Tail(list))

\* rename(old, new): the file is known under the new name only, in place of
\* what had that name.  The value rename returns is not looked at.
RenameFile(d, old, new) ==
  [f \in (DOMAIN d \ {old}) \cup {new} |-> IF f = new THEN d[old] ELSE d[f]]

\* The loop over savedSources at the end of main().
RECURSIVE RenameSources(_, _)
RenameSources(d, list) ==
  IF list = << >> THEN d
  ELSE LET I == Head(list)
           pos == Find(I, ".cu", 0)
       IN  RenameSources(IF pos # npos
                           THEN RenameFile(d, I, Substr(I, 0, pos))
                           ELSE d,
                         Tail(list))

Init ==
  /\ file \in FilesUpTo(MaxConstructs)
  /\ \E I \in Paths : sources = << I >>
  /\ savedSources = SavedSources(sources)
  /\ disk = CopySources([f \in {sources[1]} |-> {}], sources)
  /\ pc = "host"
  /\ idx = 0
  /\ Replace = {}
  /\ dangling = {}
  /\ Result = 0   \* int Result; is not initialised, and is assigned before it is read
  /\ match = 0
  /\ proposed = << >>
  /\ trace = << >>
  /\ applied = {}
  /\ skipped = {}


(***************************************************************************)
(* DenseMap<StringRef, StringRef> lookups.  operator[] on a key that is    *)
(* not there adds it with an empty value; the callbacks pass a local       *)
(* std::string, so the StringRef kept as the key dangles once the callback *)
(* has returned.  What a dangling key compares equal to later is not       *)
(* defined: a later lookup of an absent name of the same length may or may *)
(* not hit it.                                                             *)
(***************************************************************************)
MayAlias(dang, name) == \E d \in dang : Len(d) = Len(name)

\* The possible results of T.count(name).
Count(T, dang, name) ==
  IF name \in DOMAIN T /\ name \notin dang THEN {TRUE}
  ELSE IF MayAlias(dang, name) THEN {TRUE, FALSE}
  ELSE {FALSE}

\* The value of T[name]: a key that is not there reads as the empty string.
Subscript(T, name) == IF name \in DOMAIN T THEN T[name] ELSE ""

\* The possible sets of added keys after T[name]: a key that is found adds
\* nothing, one that is not found is added.
AfterSubscript(T, dang, name) ==
  IF name \in DOMAIN T /\ name \notin dang THEN {dang}
  ELSE {dang \cup {name}} \cup (IF MayAlias(dang, name) THEN {dang} ELSE {})

(***************************************************************************)
(* main(): the matchers (Finder.addMatcher).  PP callbacks are not         *)
(* filtered by a matcher.                                                  *)
(***************************************************************************)
\* Matched altered: the declaration matchers without their name pattern.
MatchedNoPattern(c) ==
  CASE c.kind = "cudaCall" -> c.inMain /\ MatchesName(c.callee, "cuda")
    [] c.kind = "cudaLaunchKernel" -> TRUE
    [] c.kind = "cudaBuiltin" ->
         c.inMain /\ MatchesName(c.baseType, "__cuda_builtin_")
    [] c.kind \in {"cudaEnumConstantRef", "cudaEnumConstantDecl",
                   "cudaStructVar", "cudaParamDecl"} -> c.inMain
    [] c.kind = "stringLiteral" -> TRUE
    [] OTHER -> TRUE

Matched(c) ==
  CASE c.kind = "cudaCall" -> c.inMain /\ MatchesName(c.callee, "cuda")
    [] c.kind = "cudaLaunchKernel" -> TRUE
    [] c.kind = "cudaBuiltin" ->
         c.inMain /\ MatchesName(c.baseType, "__cuda_builtin_")
    [] c.kind \in {"cudaEnumConstantRef", "cudaEnumConstantDecl",
                   "cudaStructVar", "cudaParamDecl"} ->
         c.inMain /\ MatchesName(c.name, "cuda")
    [] c.kind = "stringLiteral" -> TRUE
    [] OTHER -> TRUE

\* The constructs a matcher binds, or a PP callback is called for.
MatchedPlaces == {i \in Places : Matched(Constructs[i])}

\* The constructs of file f that a pass of the given stage reports.
Reported(f, stage) ==
  {i \in f : Constructs[i].view \in {"both", stage} /\ i \in MatchedPlaces}

\* The construct the running pass reports next, if any.
Pending == {i \in Reported(file, pc) : i > idx}
InPass == pc \in {"host", "device"}
NextPlace == Min(Pending)
NextIs(kind) ==
  /\ InPass
  /\ Pending # {}
  /\ Constructs[NextPlace].kind = kind

\* SM->isMacroArgExpansion(sl) ? SM->getImmediateSpellingLoc(sl) : sl
Loc(i) ==
  IF Constructs[i].macroArg THEN OffsetOf(i) + Constructs[i].argAt
  ELSE OffsetOf(i)

\* What every callback leaves behind: the Replacements it inserted, in order,
\* and the table after its lookups.
Callback(i, reps, dang) ==
  /\ Replace' = InsertAll(Replace, reps)
  /\ dangling' = dang
  /\ idx' = i
  /\ match' = i
  /\ proposed' = reps
  /\ UNCHANGED <<file, pc, Result, trace, applied, skipped, sources,
               savedSources, disk>>

\* A fault in a callback ends the process.
Crash(i) ==
  /\ pc' = "crashed"
  /\ idx' = i
  /\ match' = i
  /\ proposed' = << >>
  /\ UNCHANGED <<file, Replace, dangling, Result, trace, applied, skipped,
               sources, savedSources, disk>>


(***************************************************************************)
(* HipifyPPCallbacks                                                       *)
(***************************************************************************)
\* InclusionReps altered: the include form is not looked at.
InclusionRepsAnyForm(i) ==
  LET c == Constructs[i]
  IN  IF c.inMain /\ c.file_name \in DOMAIN NPP
      THEN << Replacement(OffsetOf(i) + c.nameAt, c.rangeLen,
                          "<" \o NPP[c.file_name] \o ">") >>
      ELSE << >>

\* InclusionDirective: the Replacements it inserts.
InclusionReps(i) ==
  LET c == Constructs[i]
  IN  IF c.inMain /\ c.is_angled /\ c.file_name \in DOMAIN NPP
      THEN << Replacement(OffsetOf(i) + c.nameAt, c.rangeLen,
                          "<" \o NPP[c.file_name] \o ">") >>
      ELSE << >>

InclusionDirective ==
  /\ NextIs("include")
  /\ LET i == NextPlace IN
      Callback(i, InclusionReps(i), dangling)

\* MacroDefined: one Replacement for every identifier token of the body that
\* is a key of the table.
RECURSIVE MacroReps(_, _)
MacroReps(i, tokens) ==
  IF tokens = << >> THEN << >>
  ELSE LET T == Head(tokens)
       IN  (IF T.ident /\ T.name \in DOMAIN NPP
            THEN << Replacement(OffsetOf(i) + T.at, Len(T.name), NPP[T.name]) >>
            ELSE << >>) \o MacroReps(i, Tail(tokens))

MacroDefined ==
  /\ NextIs("macro")
  /\ LET i == NextPlace IN
      LET c == Constructs[i]
       IN  Callback(i,
                    IF c.inMain /\ c.mdKind = "MD_Define"
                    THEN MacroReps(i, c.tokens) ELSE << >>,
                    dangling)

(***************************************************************************)
(* Cuda2HipCallback::run, one action for each bound node                   *)
(***************************************************************************)
\* CallReps altered: the span runs to the end of the call expression.
CallRepsWholeCall(i, found) ==
  LET name == Constructs[i].callee
  IN  IF found
      THEN << Replacement(Loc(i), Len(name) + 2, Subscript(N, name)) >>
      ELSE << >>

\* "cudaCall": the callee is renamed if the table has it.
CallReps(i, found) ==
  LET name == Constructs[i].callee
  IN  IF found
      THEN << Replacement(Loc(i), Len(name), Subscript(N, name)) >>
      ELSE << >>

RunCudaCall ==
  /\ NextIs("cudaCall")
  /\ LET i == NextPlace IN
      \E found \in Count(N, dangling, Constructs[i].callee) :
         Callback(i, CallReps(i, found), dangling)

\* The text of the configuration arguments, as the first loop builds it.
RECURSIVE ConfigText(_)
ConfigText(config) ==
  IF config = << >> THEN ""
  ELSE LET arg == Head(config)
           piece == IF ~arg.isDefault
                    THEN IF arg.type = "dim3"
                         THEN " dim3(" \o arg.text \o "),"
                         ELSE " " \o arg.text \o ","
                    ELSE " 0,"
       IN  piece \o ConfigText(Tail(config))

\* The text of the launch arguments, as the second loop builds it.
RECURSIVE ArgsText(_)
ArgsText(args) ==
  IF args = << >> THEN ""
  ELSE " " \o Head(args).text \o "," \o ArgsText(Tail(args))

\* repName of the launch.
LaunchText(c) ==
  PopBack("hipLaunchKernel(HIP_KERNEL_NAME(" \o c.kernel \o "), "
            \o ConfigText(c.config) \o ArgsText(c.args)) \o ")"

\* "cudaLaunchKernel": Rep0 puts the extra parameter in front of the kernel's
\* parameter list, Rep replaces the launch expression.
LaunchReps(i) ==
  LET c == Constructs[i]
  IN  << Replacement(c.paramListAt, Len(c.paramList),
                     "hipLaunchParm lp, " \o c.paramList),
         Replacement(OffsetOf(i), c.length, LaunchText(c)) >>

\* kernelDecl->getParamDecl(0) of a kernel without parameters reads past the
\* end of an empty array: the process faults.
RunCudaLaunchKernel ==
  /\ NextIs("cudaLaunchKernel")
  /\ LET i == NextPlace IN
      IF Constructs[i].numParams = 0
       THEN Crash(i)
       ELSE Callback(i, LaunchReps(i), dangling)

\* A rename whose lookup is N.cuda2hipRename[name] with no count() before it.
RenameReps(i, name) ==
  << Replacement(Loc(i), Len(name), Subscript(N, name)) >>

Rename(i, name) ==
  \E after \in AfterSubscript(N, dangling, name) :
    Callback(i, RenameReps(i, name), after)

\* The key of a builtin access: base.member, the member name without its
\* leading characters out of "__fetch_builtin_".
BuiltinPos(c) == FindFirstNotOf(c.member, "__fetch_builtin_")
BuiltinName(c) ==
  c.base \o "." \o Substr(c.member, BuiltinPos(c), Len(c.member) - BuiltinPos(c))

\* "cudaBuiltin": substr(npos, ...) throws, and nothing catches it.
RunCudaBuiltin ==
  /\ NextIs("cudaBuiltin")
  /\ LET i == NextPlace IN
      LET c == Constructs[i]
       IN  IF ~c.opaque THEN Callback(i, << >>, dangling)
           ELSE IF BuiltinPos(c) = npos THEN Crash(i)
           ELSE Rename(i, BuiltinName(c))

RunCudaEnumConstantRef ==
  /\ NextIs("cudaEnumConstantRef")
  /\ LET i == NextPlace IN
      Rename(i, Constructs[i].name)

RunCudaEnumConstantDecl ==
  /\ NextIs("cudaEnumConstantDecl")
  /\ LET i == NextPlace IN
      Rename(i, Constructs[i].name)

RunCudaStructVar ==
  /\ NextIs("cudaStructVar")
  /\ LET i == NextPlace IN
      Rename(i, Constructs[i].name)

RunCudaParamDecl ==
  /\ NextIs("cudaParamDecl")
  /\ LET i == NextPlace IN
      Rename(i, Constructs[i].name)

\* "stringLiteral": the while loop.  Every round replaces one "cuda" and
\* inserts a Replacement carrying the string as it is after that round.
RECURSIVE StringLiteralReps(_, _, _, _)
StringLiteralReps(s, pos, off, len) ==
  LET p == Find(s, "cuda", pos)
  IN  IF p = npos THEN << >>
      ELSE LET s2 == StrReplace(s, p, Len("cuda"), "hip")
           IN  << Replacement(off, len, s2) >>
                 \o StringLiteralReps(s2, p + Len("hip"), off, len)

RunStringLiteral ==
  /\ NextIs("stringLiteral")
  /\ LET i == NextPlace IN
      Callback(i,
                StringLiteralReps(Constructs[i].str, 0, Loc(i),
                                  Len(Constructs[i].str)),
                dangling)

(***************************************************************************)
(* main()                                                                  *)
(***************************************************************************)
\* NextStage altered: the device-only pass is skipped after a failure.
NextStageStopOnError(stage, r) ==
  IF stage = "host" THEN (IF r = 0 THEN "device" ELSE "apply") ELSE "apply"

\* The stage after Tool.run returned r: the loop does not look at r.
NextStage(stage, r) == IF stage = "host" THEN "device" ELSE "apply"

\* EndPass altered: a run that failed takes the Replacements with it.
EndPassDiscarding ==
  /\ InPass
  /\ \E r \in {0, 1} :
       /\ r = 0 => Pending = {}
       /\ Result' = r
       /\ pc' = NextStage(pc, r)
       /\ trace' = Append(trace, [event |-> pc, ok |-> r = 0])
       /\ Replace' = IF r = 0 THEN Replace ELSE {}
  /\ idx' = 0
  /\ match' = 0
  /\ proposed' = << >>
  /\ UNCHANGED <<file, dangling, applied, skipped, sources, savedSources,
                 disk>>

\* Tool.run returns: with 0 after everything was reported, with 1 after the
\* parser gave up on the file (what was not yet reported is not reported).
EndPass ==
  /\ InPass
  /\ \E r \in {0, 1} :
       /\ r = 0 => Pending = {}
       /\ Result' = r
       /\ pc' = NextStage(pc, r)
       /\ trace' = Append(trace, [event |-> pc, ok |-> r = 0])
  /\ idx' = 0
  /\ match' = 0
  /\ proposed' = << >>
  /\ UNCHANGED <<file, Replace, dangling, applied, skipped, sources,
               savedSources, disk>>

RECURSIVE SubsetsUpTo(_, _)
SubsetsUpTo(S, n) ==
  IF n = 0 THEN {{}}
  ELSE LET smaller == SubsetsUpTo(S, n - 1)
       IN  smaller \cup {b \cup {r} : b \in smaller, r \in S}

\* Tool.applyAllReplacements(Rewrite): every Replacement is tried; the ones
\* that cannot be applied are skipped and make the call return false.
ApplyAllReplacements ==
  /\ pc = "apply"
  /\ \E bad \in SubsetsUpTo(Replace, MaxSkipped) :
       /\ skipped' = bad
       /\ applied' = Replace \ bad
       /\ trace' = Append(trace, [event |-> "apply", ok |-> bad = {}])
  /\ pc' = "overwrite"
  /\ UNCHANGED <<file, idx, Replace, dangling, Result, match, proposed,
                 sources, savedSources, disk>>

\* Result = Rewrite.overwriteChangedFiles(): true if a file was not saved.
ExitStatus(saveFailed) == IF saveFailed THEN 1 ELSE 0

\* The files after Rewrite.overwriteChangedFiles(): the copy has the applied
\* Replacements in it unless it could not be saved.
Overwritten(d, saveFailed) ==
  IF saveFailed THEN d
  ELSE [f \in DOMAIN d |-> IF f = FilePath THEN applied ELSE d[f]]

\* The rest of main(): the files are saved, the copies are renamed and Result
\* is returned.
OverwriteChangedFiles ==
  /\ pc = "overwrite"
  /\ \E saveFailed \in BOOLEAN :
       /\ Result' = ExitStatus(saveFailed)
       /\ disk' = RenameSources(Overwritten(disk, saveFailed), savedSources)
  /\ pc' = "done"
  /\ UNCHANGED <<file, idx, Replace, dangling, match, proposed, trace, applied,
                 skipped, sources, savedSources>>

Next ==
  \/ InclusionDirective
  \/ MacroDefined
  \/ RunCudaCall
  \/ RunCudaLaunchKernel
  \/ RunCudaBuiltin
  \/ RunCudaEnumConstantRef
  \/ RunCudaEnumConstantDecl
  \/ RunCudaStructVar
  \/ RunCudaParamDecl
  \/ RunStringLiteral
  \/ EndPass
  \/ ApplyAllReplacements
  \/ OverwriteChangedFiles

Spec == Init /\ [][Next]_vars


(***************************************************************************)
(* The claims.                                                             *)
(***************************************************************************)
\* The construct the last callback was given.
Last == Constructs[match]
Reports(kind) == match # 0 /\ Last.kind = kind

SameSpan(r1, r2) ==
  r1.FilePath = r2.FilePath /\ r1.Offset = r2.Offset /\ r1.Length = r2.Length

\* The spans [Offset, Offset + Length) share a character.
Overlap(r1, r2) ==
  /\ r1.FilePath = r2.FilePath
  /\ r1.Offset < r2.Offset + r2.Length
  /\ r2.Offset < r1.Offset + r1.Length

Events == [k \in DOMAIN trace |-> trace[k].event]

\* Every "cuda" of s replaced by "hip", the occurrences taken from the left
\* and not overlapping.
RECURSIVE ReplaceAll(_)
ReplaceAll(s) ==
  LET p == Find(s, "cuda", 0)
  IN  IF p = npos THEN s
      ELSE Substr(s, 0, p) \o "hip"
             \o ReplaceAll(Substr(s, p + 4, Len(s) - (p + 4)))

\* C1: an edit proposed for the span of an accepted edit is rejected, so the set
\* holds one edit for a span, the one proposed first.
C1_FirstWriterWins ==
  /\ \A r1, r2 \in Replace : SameSpan(r1, r2) => r1 = r2
  /\ \A j, k \in DOMAIN proposed :
       j < k /\ SameSpan(proposed[j], proposed[k]) /\ proposed[k] \in Replace
         => proposed[k] = proposed[j]

\* C2: no two accepted edits have overlapping spans.
C2_NoOverlap ==
  \A r1, r2 \in Replace : r1 # r2 => ~Overlap(r1, r2)

C4_StatusReflectsSkipped ==
  pc = "done" /\ skipped # {} =>
    /\ Result # 0
    /\ applied = Replace \ skipped

\* C5: the builtin rule and the enum / type / struct / parameter rule insert
\* nothing when their key is not in the table.
C5_LookupMissSilent ==
  /\ Reports("cudaBuiltin") /\ Last.opaque /\ pc # "crashed"
       /\ BuiltinName(Last) \notin DOMAIN hipName
     => proposed = << >>
  /\ match # 0
       /\ Last.kind \in {"cudaEnumConstantRef", "cudaEnumConstantDecl",
                         "cudaStructVar", "cudaParamDecl"}
       /\ Last.name \notin DOMAIN hipName
     => proposed = << >>

\* C6: the string-literal rule inserts one edit for a literal with "cuda" in it,
\* over the whole literal and with every "cuda" replaced, and none otherwise.
C6_OneEditPerLiteral ==
  Reports("stringLiteral") =>
    proposed = IF Find(Last.str, "cuda", 0) # npos
               THEN << Replacement(Loc(match), Last.tokenLen,
                                   ReplaceAll(Last.str)) >>
               ELSE << >>

\* The text the claim gives for a launch: the arguments joined by commas, a dim3
\* configuration argument wrapped, a default configuration argument as 0.
RenderConfig(arg) ==
  IF arg.isDefault THEN "0"
  ELSE IF arg.type = "dim3" THEN "dim3(" \o arg.text \o ")"
  ELSE arg.text

RECURSIVE JoinConfig(_)
JoinConfig(config) ==
  IF config = << >> THEN ""
  ELSE ", " \o RenderConfig(Head(config)) \o JoinConfig(Tail(config))

RECURSIVE JoinArgs(_)
JoinArgs(args) ==
  IF args = << >> THEN ""
  ELSE ", " \o Head(args).text \o JoinArgs(Tail(args))

ExpectedLaunchText(c) ==
  "hipLaunchKernel(HIP_KERNEL_NAME(" \o c.kernel \o ")"
    \o JoinConfig(c.config) \o JoinArgs(c.args) \o ")"

RECURSIVE NoBlanks(_)
NoBlanks(s) ==
  IF s = "" THEN ""
  ELSE (IF Head(s) = " " THEN "" ELSE Head(s)) \o NoBlanks(Tail(s))

\* C7: every kernel launch, whatever the number of its arguments, gets an edit
\* over the launch expression whose text is the claim's (blanks aside), with no
\* comma before the closing parenthesis.
C7_LaunchText ==
  Reports("cudaLaunchKernel") =>
    \E k \in DOMAIN proposed :
      /\ proposed[k].Offset = OffsetOf(match)
      /\ proposed[k].Length = Last.length
      /\ NoBlanks(proposed[k].ReplacementText)
           = NoBlanks(ExpectedLaunchText(Last))
      /\ Find(NoBlanks(proposed[k].ReplacementText), ",)", 0) = npos

\* A file that is one call written in the main file, after both passes ran to
\* their end.
OnlyCall(i) ==
  /\ file = {i}
  /\ Constructs[i].kind = "cudaCall"
  /\ Constructs[i].inMain
  /\ pc = "apply"
  /\ trace[1].ok
  /\ trace[2].ok

\* The edit that renames the callee token of call i.
CalleeEdit(i) ==
  [FilePath |-> FilePath,
   Offset |-> IF Constructs[i].macroArg THEN OffsetOf(i) + Constructs[i].argAt
              ELSE OffsetOf(i),
   Length |-> Len(Constructs[i].callee),
   ReplacementText |-> hipName[Constructs[i].callee]]

\* C8 as claimed: a call of any key of the table is renamed by one edit.
C8_AnyKeyRenamed ==
  \A i \in Places :
    OnlyCall(i) =>
      Replace = IF Constructs[i].callee \in DOMAIN hipName
                THEN {CalleeEdit(i)} ELSE {}

\* C8 as amended: a call is renamed, by one edit over the callee token, when its
\* callee is a key of the table with "cuda" in it, and gets no edit otherwise.
C8_CudaKeyRenamed ==
  \A i \in Places :
    OnlyCall(i) =>
      Replace = IF /\ Constructs[i].callee \in DOMAIN hipName
                   /\ MatchesName(Constructs[i].callee, "cuda")
                THEN {CalleeEdit(i)} ELSE {}

\* The call of cudaMalloc in a macro argument, renamed where it is spelled.
C8_Witness ==
  /\ OnlyCall(9)
  /\ Replace = {[FilePath |-> FilePath, Offset |-> 9 * Stride + 6,
                 Length |-> 10, ReplacementText |-> "hipMalloc"]}

\* C9: InclusionDirective inserts an edit exactly for an angled include, written
\* in the main file, of a name the table has; the edit puts <target> in the
\* place of the name and its brackets.
C9_IncludeRule ==
  Reports("include") =>
    proposed = IF /\ Last.inMain
                  /\ Last.is_angled
                  /\ Last.file_name \in DOMAIN hipName
               THEN << [FilePath |-> FilePath,
                        Offset |-> match * Stride + Len("#include "),
                        Length |-> Len(Last.file_name) + 2,
                        ReplacementText |->
                          "<" \o hipName[Last.file_name] \o ">"] >>
               ELSE << >>

\* #include <cuda_runtime.h> seen again in the device-only pass.
C9_Witness ==
  /\ pc = "device"
  /\ Reports("include")
  /\ proposed = << [FilePath |-> FilePath, Offset |-> Stride + 9,
                    Length |-> 16, ReplacementText |-> "<hip_runtime.h>"] >>

\* The names of translated text: the targets of the table and the name the
\* launch rule writes.
TargetNames == {hipName[k] : k \in DOMAIN hipName} \cup {"hipLaunchKernel"}

RECURSIVE IdentifiersIn(_)
IdentifiersIn(tokens) ==
  IF tokens = << >> THEN {}
  ELSE (IF Head(tokens).ident THEN {Head(tokens).name} ELSE {})
         \cup IdentifiersIn(Tail(tokens))

LiteralPlaces == {j \in Places : Constructs[j].kind = "stringLiteral"}

\* A construct as translated text has it.
TargetSide(c) ==
  CASE c.kind = "cudaCall" -> c.callee \in TargetNames
    [] c.kind \in {"cudaEnumConstantRef", "cudaEnumConstantDecl",
                   "cudaStructVar", "cudaParamDecl"} -> c.name \in TargetNames
    [] c.kind = "stringLiteral" ->
         \E j \in LiteralPlaces : c.str = ReplaceAll(Constructs[j].str)
    [] c.kind = "include" -> c.file_name \in TargetNames
    [] c.kind = "macro" -> IdentifiersIn(c.tokens) \subseteq TargetNames
    [] OTHER -> FALSE

\* No target of the table is a key of it.
NoTargetIsKey == \A k \in DOMAIN hipName : hipName[k] \notin DOMAIN hipName

\* The text of the last Replacement the string-literal rule made for the
\* literal just reported, or the literal as it is if the rule made none.
TranslatedLiteral ==
  IF proposed = << >> THEN Last.str
  ELSE proposed[Len(proposed)].ReplacementText

\* The literal just reported has no "cuda" in it after its translation.
NoMarkerLeft ==
  Reports("stringLiteral") => Find(TranslatedLiteral, "cuda", 0) = npos

\* The constructs that are translated text.
TargetPlaces == {i \in Places : TargetSide(Constructs[i])}

\* C10: no target of the table is a key, no translated literal has "cuda" in
\* it, and the passes over a file of target-side constructs insert nothing.
C10_Idempotent ==
  /\ NoTargetIsKey
  /\ NoMarkerLeft
  /\ file \subseteq TargetPlaces => Replace = {}

\* Both passes over a translated enum constant and a translated literal.
C10_Witness ==
  /\ pc = "done"
  /\ Cardinality(file) = 2
  /\ \A i \in file : TargetSide(Constructs[i])
  /\ \E i \in file : Constructs[i].kind = "cudaEnumConstantRef"
  /\ \E i \in file : Constructs[i].kind = "stringLiteral"
  /\ trace[1].ok /\ trace[2].ok
  /\ Replace = {}

\* C11: the table of the AST callback is never written: when the Replacements
\* are applied it has the keys and the values the constructor gave it.
C11_TableReadOnly ==
  pc = "apply" => /\ DOMAIN N = DOMAIN hipName
                  /\ \A k \in DOMAIN hipName : N[k] = hipName[k]

\* A path with the extension .cu, a name with the extension .hip.cu.
HasCuExtension(I) == Len(I) >= 3 /\ Substr(I, Len(I) - 3, 3) = ".cu"
HasMarkerExtension(I) == Len(I) >= 7 /\ Substr(I, Len(I) - 7, 7) = ".hip.cu"

\* What the copy holds when the files were saved: the applied Replacements,
\* or the text of the source if the copy could not be saved.
SavedText == IF Result = 0 THEN applied ELSE {}

\* C12: for a source path that ends in .cu the passes run on a copy whose
\* name ends in .hip.cu, and when the run is over that copy has been renamed
\* to the source path: the copy's name is gone and the source path holds what
\* the copy held.
C12_RenamedBack ==
  \A n \in 1..Len(sources) :
    HasCuExtension(sources[n]) =>
      /\ InPass => /\ Len(savedSources) = 1
                   /\ HasMarkerExtension(savedSources[n])
                   /\ savedSources[n] \in DOMAIN disk
      /\ pc = "done" => /\ savedSources[n] \notin DOMAIN disk
                        /\ disk[sources[n]] = SavedText

\* C13: no step takes a Replacement out of the set or changes one, and the
\* end of a pass, failed or not, leaves the set as the callbacks made it: what
\* the host-only pass inserted is there when the Replacements are applied.
C13_OnlyGrows ==
  [][/\ Replace \subseteq Replace'
     /\ (InPass /\ pc' # pc) => Replace' = Replace]_vars

\* The host-only pass failed after the include was reported and before the
\* call was, and the device-only pass failed as well: the include's
\* Replacement is what gets applied.
C13_Witness ==
  /\ pc = "apply"
  /\ file = {1, 8}
  /\ ~trace[1].ok /\ ~trace[2].ok
  /\ Replace = {Replacement(Stride + 9, 16, "<hip_runtime.h>")}

Range(seq) == {seq[k] : k \in DOMAIN seq}

\* The constructs whose rule makes one Replacement at most, and where it is.
SingleEdit(i) ==
  Constructs[i].kind \in {"include", "cudaCall", "cudaBuiltin",
                          "cudaEnumConstantRef", "cudaEnumConstantDecl",
                          "cudaStructVar", "cudaParamDecl"}
EditOffset(i) ==
  IF Constructs[i].kind = "include" THEN OffsetOf(i) + Constructs[i].nameAt
  ELSE Loc(i)

SeenInBothPasses(i) ==
  /\ i \in Reported(file, "host") \cap Reported(file, "device")
  /\ Len(trace) >= 2 /\ trace[1].ok /\ trace[2].ok

ParamListEdits(c) ==
  {r \in Replace : r.Offset = c.paramListAt /\ r.Length = Len(c.paramList)}

\* C14: a callback leaves in the set what was there and what it inserted, an
\* edit that is there already being inserted to no effect; so after both
\* passes a construct that both reported has its edit in the set once, a file
\* of one construct gets nothing new from the second pass, and a kernel has
\* one edit of its parameter list, however many of its launches were seen.
C14_UnionOfPasses ==
  /\ [](\A i \in file :
          /\ SingleEdit(i) /\ SeenInBothPasses(i)
               => Cardinality({r \in Replace : r.Offset = EditOffset(i)}) <= 1
          /\ Constructs[i].kind = "cudaLaunchKernel" /\ SeenInBothPasses(i)
               => ParamListEdits(Constructs[i]) =
                    {Replacement(Constructs[i].paramListAt,
                                 Len(Constructs[i].paramList),
                                 "hipLaunchParm lp, "
                                   \o Constructs[i].paramList)})
  /\ [][/\ (InPass /\ pc' = pc) => Replace' = Replace \cup Range(proposed')
        /\ (pc = "device" /\ pc' = pc /\ trace[1].ok
              /\ file = {match'} /\ match' \in Reported(file, "host"))
             => Replace' = Replace]_vars

\* Two launches of the kernel foo, each seen in both passes: one edit of foo's
\* parameter list and one edit for each launch.
C14_Witness ==
  /\ pc = "apply"
  /\ file = {15, 16}
  /\ \A i \in file : SeenInBothPasses(i)
  /\ Cardinality(ParamListEdits(Constructs[15])) = 1
  /\ Cardinality(Replace) = 3

====
